---- MODULE Spec2Model ----
(***************************************************************************)
(* M2MObjectHelper (m2m_object_helper.h / m2m_object_helper.cpp): a        *)
(* definition-driven builder of an LWM2M object instance and its           *)
(* resources, and the typed set/get accessors on those resources.          *)
(*                                                                         *)
(* The object model of mbed client (M2MObject, M2MObjectInstance,          *)
(* M2MResource, M2MResourceInstance) is the environment of the helper: it  *)
(* is modelled as a store of resources keyed by <<object, object instance, *)
(* resource name, resource instance>> whose creation and set_value calls   *)
(* may fail at the environment's choice.                                   *)
(*                                                                         *)
(* Values: a resource value is a text, a sequence of one-character         *)
(* strings.  A float is modelled as a decimal fixed-point number, the      *)
(* integer count of its hundredths.                                        *)
(***************************************************************************)
EXTENDS Integers, Sequences, FiniteSets, TLC

\* ------------------------------------------------------------------ bounds
\* The most creation calls the environment fails during one makeObject.
MaxFail == 1
\* The largest capacity len passed to getResourceValue(char *, len).
MaxLen == 3

\* ---------------------------------------------------------------- constants
NULL == 0
\* sizeof(buffer) of the private setResourceValue.
BufferSize == 32
\* wantedInstance / DefResource.instance of a single-instance resource.
SingleInstance == 0 - 1

\* The application types of the public setResourceValue / getResourceValue
\* overloads: int64_t, float, bool, const char * (set) or char * with a
\* length (get), and String.
AppType == {"int64", "float", "bool", "cstr", "String"}

\* ------------------------------------------------------------------- texts
Digit == <<"0", "1", "2", "3", "4", "5", "6", "7", "8", "9">>

IsDigit(c) == \E i \in 1..10 : Digit[i] = c

DigitVal(c) == (CHOOSE i \in 1..10 : Digit[i] = c) - 1

RECURSIVE NatText(_)
\* The decimal digits of a natural number.
NatText(n) == IF n < 10 THEN <<Digit[n + 1]>>
              ELSE NatText(n \div 10) \o <<Digit[(n % 10) + 1]>>

\* M2MResourceBase::set_value(int64_t): the value is stored as decimal text.
IntText(n) == IF n < 0 THEN <<"-">> \o NatText(0 - n) ELSE NatText(n)

RECURSIVE DigitsValue(_, _)
\* The number read from the leading digits of s, continuing from acc.
DigitsValue(s, acc) ==
    IF s = <<>> \/ ~IsDigit(Head(s)) THEN acc
    ELSE DigitsValue(Tail(s), acc * 10 + DigitVal(Head(s)))

\* M2MResourceBase::get_value_int(): the stored text read as a decimal
\* integer, 0 when there is none.
TextInt(s) ==
    IF s = <<>> THEN 0
    ELSE IF Head(s) = "-" THEN 0 - DigitsValue(Tail(s), 0)
    ELSE DigitsValue(s, 0)

RECURSIVE LeadingDigits(_)
\* The number of leading digits of s.
LeadingDigits(s) ==
    IF s = <<>> \/ ~IsDigit(Head(s)) THEN 0 ELSE 1 + LeadingDigits(Tail(s))

Abs(n) == IF n < 0 THEN 0 - n ELSE n

TwoDigits(n) == <<Digit[(n \div 10) + 1], Digit[(n % 10) + 1]>>

\* snprintf(buffer, sizeof(buffer), format, value) for the formats the
\* definitions use: "%f" prints six decimals, "%.1f" one decimal, rounded
\* to nearest.  v is the value in hundredths.
FormatFloat(format, v) ==
    LET sign == IF v < 0 THEN <<"-">> ELSE <<>>
        m    == Abs(v)
        t    == (m + 5) \div 10
    IN  IF format = "%.1f"
        THEN sign \o NatText(t \div 10) \o <<".">> \o <<Digit[(t % 10) + 1]>>
        ELSE sign \o NatText(m \div 100) \o <<".">> \o TwoDigits(m % 100)
                  \o <<"0", "0", "0", "0">>

\* The text printf makes of the float val: for exp > 0 the integer digits
\* are followed by exp zeros.  (The decimal expansion of the nearest
\* binary float has other digits in place of these zeros, and as many.)
RenderFloat(format, val) ==
    LET t == FormatFloat(format, val.flt)
        p == CHOOSE i \in 1..Len(t) : t[i] = "."
    IN  IF val.exp = 0 THEN t
        ELSE SubSeq(t, 1, p - 1) \o [i \in 1..val.exp |-> "0"] \o SubSeq(t, p, Len(t))

\* snprintf(buffer, sizeof(buffer), format, value): the buffer holds the
\* text cut to BufferSize - 1 characters and a terminator; the result is
\* the length of the whole text.
snprintf(format, val) ==
    LET t == RenderFloat(format, val)
    IN  [length |-> Len(t),
         buffer |-> (IF Len(t) < BufferSize THEN t ELSE SubSeq(t, 1, BufferSize - 1))
                    \o <<"NUL">>]

\* The bytes set_value(buffer, length) reads inside the buffer.
BufferBytes(p) ==
    SubSeq(p.buffer, 1, IF p.length < BufferSize THEN p.length ELSE BufferSize)

\* sscanf(text, "%f", &value): [ok |-> a number was converted, v |-> its
\* value in hundredths].  With no leading number nothing is assigned.
ScanFloat(s) ==
    LET neg  == s # <<>> /\ Head(s) = "-"
        body == IF neg THEN Tail(s) ELSE s
        ni   == LeadingDigits(body)
        rest == SubSeq(body, ni + 1, Len(body))
        hasF == rest # <<>> /\ Head(rest) = "."
        frac == IF hasF THEN Tail(rest) ELSE <<>>
        nf   == LeadingDigits(frac)
        d1   == IF nf >= 1 THEN DigitVal(frac[1]) ELSE 0
        d2   == IF nf >= 2 THEN DigitVal(frac[2]) ELSE 0
        mag  == DigitsValue(body, 0) * 100 + d1 * 10 + d2
    IN  [ok |-> ni + nf > 0, v |-> IF neg THEN 0 - mag ELSE mag]

\* --------------------------------------------------------- the definitions
\* DefResource.format of an entry that declares no format (NULL).
NoFormat == ""

\* A DefResource: instance, name, type, observable, operation, format.
\* (typeString is only handed on to the object model and is left out.)
DefRes(instance, name, type, observable, operation, format) ==
    [instance |-> instance, name |-> name, type |-> type,
     observable |-> observable, operation |-> operation, format |-> format]

\* The DefObject tables of the subclasses: instance, name, resources
\* (numResources is the length of resources).
DefTable == <<
    \* a temperature sensor with a formatted value and a two-instance resource
    [instance |-> 0, name |-> "3303", resources |-> <<
        DefRes(SingleInstance, "5700", "FLOAT", TRUE, "GET_ALLOWED", "%.1f"),
        DefRes(0, "5601", "INTEGER", FALSE, "GET_ALLOWED", NoFormat),
        DefRes(1, "5601", "INTEGER", FALSE, "GET_PUT_ALLOWED", NoFormat) >>],
    \* a switch
    [instance |-> 0, name |-> "3312", resources |-> <<
        DefRes(SingleInstance, "5850", "BOOLEAN", FALSE, "GET_PUT_ALLOWED", NoFormat),
        DefRes(SingleInstance, "5750", "STRING", FALSE, "GET_ALLOWED", NoFormat),
        DefRes(SingleInstance, "5603", "TIME", FALSE, "GET_ALLOWED", NoFormat) >>],
    \* the second instance of the temperature sensor, sharing object "3303"
    [instance |-> 1, name |-> "3303", resources |-> <<
        DefRes(SingleInstance, "5700", "FLOAT", TRUE, "GET_ALLOWED", NoFormat),
        DefRes(SingleInstance, "5750", "STRING", FALSE, "GET_ALLOWED", NoFormat) >>],
    \* an object with resources of the kinds the accessors do not handle
    \* and an executable resource
    [instance |-> 0, name |-> "32769", resources |-> <<
        DefRes(SingleInstance, "5910", "OPAQUE", FALSE, "GET_PUT_ALLOWED", NoFormat),
        DefRes(SingleInstance, "5911", "OBJLINK", FALSE, "GET_ALLOWED", NoFormat),
        DefRes(SingleInstance, "5605", "STRING", FALSE, "POST_ALLOWED", NoFormat) >>],
    \* a set point the server may write, with a two-instance resource
    [instance |-> 0, name |-> "3308", resources |-> <<
        DefRes(SingleInstance, "5900", "FLOAT", FALSE, "GET_PUT_ALLOWED", NoFormat),
        DefRes(0, "5601", "INTEGER", FALSE, "GET_ALLOWED", NoFormat),
        DefRes(1, "5601", "INTEGER", FALSE, "GET_ALLOWED", NoFormat) >>],
    \* a definition whose first entry has an instance below -1
    [instance |-> 0, name |-> "32770", resources |-> <<
        DefRes(0 - 2, "5602", "INTEGER", FALSE, "GET_ALLOWED", NoFormat),
        DefRes(SingleInstance, "5700", "FLOAT", FALSE, "GET_ALLOWED", NoFormat) >>]
    >>

Helpers == {1, 2}

\* The definitions a helper may be constructed with; NULL is no definition.
DefsOf(h) == IF h = 1 THEN {NULL, 1, 2} ELSE {3}

\* The values the accessors are called with.
IntValues == {0 - 12, 305}

FloatValues == {150, 0 - 314}

StrValues == {<<"a", "b">>, <<"a", "b", "c", "d">>}

\* An application value: the field of the overload's type holds the value.
\* A float is flt hundredths times ten to the power exp (exp > 0 only with
\* a whole number of units).
AppValue(i, f, b, s) == [int |-> i, flt |-> f, exp |-> 0, bool |-> b, str |-> s]

\* The caller's variable before a get: values no set ever stores.
Prior == AppValue(99, 9999, FALSE, <<"?">>)

ValuesOf(app) ==
    CASE app = "int64" -> {[Prior EXCEPT !.int = i] : i \in IntValues}
      [] app = "float" -> {[Prior EXCEPT !.flt = f] : f \in FloatValues}
      [] app = "bool" -> {[Prior EXCEPT !.bool = b] : b \in BOOLEAN}
      [] OTHER -> {[Prior EXCEPT !.str = s] : s \in StrValues}

\* ---------------------------------------------------------------- the state
VARIABLES
    helper,     \* per helper: constructed (live), destroyed (gone), _defObject,
                \* _object, _valueUpdatedCallback, and the history of whether
                \* its makeObject created its object instance (built)
    objects,    \* the M2MObjects that exist
    objInst,    \* the object instances that exist, <<object, instance id>>
    res,        \* the resources and resource instances, by <<object, object
                \* instance, name, resource instance>> (SingleInstance: the
                \* M2MResource itself)
    shadow,     \* history: the application value of the last successful
                \* set on each resource or resource instance
    last        \* the last operation, its arguments and its outcome

vars == <<helper, objects, objInst, res, shadow, last>>

\* ----------------------------------------------------- the object model
\* The key of the M2MResource `name` of object instance <<o, id>>.
ResKey(o, id, name) == <<o, id, name, SingleInstance>>

\* The key of resource instance `inst` of that resource.
InstKey(o, id, name, inst) == <<o, id, name, inst>>

\* M2MObject::object_instance(id): whether it returns an instance.
object_instance(oi, o, id) == <<o, id>> \in oi

\* M2MObjectInstance::resource(name): whether it returns a resource.
resource(r, o, id, name) == ResKey(o, id, name) \in DOMAIN r

\* M2MResource::supports_multiple_instances().
supports_multiple_instances(r, o, id, name) == r[ResKey(o, id, name)].multi

\* M2MResource::resource_instance(inst): whether it returns a resource
\* instance.  The parameter is a uint16_t, so an int is reduced modulo 2^16.
resource_instance(r, o, id, name, inst) ==
    InstKey(o, id, name, inst % 65536) \in DOMAIN r

\* A resource or resource instance as the object model creates it: no
\* value, GET allowed, no callbacks.
NewResource(multi, observable) ==
    [multi |-> multi, value |-> <<>>, operation |-> "GET_ALLOWED",
     observable |-> observable, updated |-> FALSE, execute |-> FALSE]

\* M2MObjectInstance::create_dynamic_resource(name, typeString, type,
\* observable, multi): a new resource, or NULL if the name is taken or the
\* environment fails the call.  [res |-> the resources after, ok |-> not NULL]
create_dynamic_resource(r, o, id, d, multi, fails) ==
    IF fails \/ resource(r, o, id, d.name)
    THEN [res |-> r, ok |-> FALSE]
    ELSE [res |-> r @@ (ResKey(o, id, d.name) :> NewResource(multi, d.observable)),
          ok |-> TRUE]

\* M2MObjectInstance::create_dynamic_resource_instance(name, typeString,
\* type, observable, instance): a new resource instance under the
\* multi-instance resource `name` (which it creates when it is missing), or
\* NULL if the resource is single-instance, the instance exists or the
\* environment fails the call.
create_dynamic_resource_instance(r, o, id, d, fails) ==
    IF fails THEN [res |-> r, ok |-> FALSE]
    ELSE LET r1 == IF resource(r, o, id, d.name) THEN r
                   ELSE r @@ (ResKey(o, id, d.name) :> NewResource(TRUE, FALSE))
         IN  IF supports_multiple_instances(r1, o, id, d.name)
                /\ ~resource_instance(r1, o, id, d.name, d.instance)
             THEN [res |-> r1 @@ (InstKey(o, id, d.name, d.instance)
                                      :> NewResource(FALSE, d.observable)),
                   ok |-> TRUE]
             ELSE [res |-> r1, ok |-> FALSE]

\* Configure attaching the callback whether or not the helper has one.
ConfigureAlwaysAttaches(r, key, d, callback) ==
    [r EXCEPT ![key].operation = d.operation, ![key].updated = TRUE]

\* set_operation(operation), and set_value_updated_function(callback) when
\* the helper has a callback, on the resource or resource instance at key.
Configure(r, key, d, callback) ==
    [r EXCEPT ![key].operation = d.operation,
              ![key].updated = IF callback THEN TRUE ELSE @]

\* ------------------------------------------------------------- operations
NoLast ==
    [op |-> "none", h |-> 0, ok |-> FALSE, fault |-> FALSE, app |-> "none",
     name |-> "none", inst |-> SingleInstance, val |-> Prior, len |-> 0,
     prior |-> Prior, mem |-> <<>>, calls |-> <<>>, log |-> <<>>,
     uaf |-> FALSE, deleted |-> FALSE, length |-> 0,
     allocated |-> 0, released |-> 0]

Init ==
    /\ helper = [h \in Helpers |->
                    [live |-> FALSE, gone |-> FALSE, built |-> FALSE,
                     defObject |-> NULL, object |-> NULL,
                     valueUpdatedCallback |-> FALSE]]
    /\ objects = {}
    /\ objInst = {}
    /\ res = <<>>
    /\ shadow = <<>>
    /\ last = NoLast

\* getObject(): the helper's _object.
getObject(h) == helper[h].object

\* M2MObjectHelper(defObject, valueUpdatedCallback, object, debugOn): the
\* constructor stores its arguments.  object is NULL or the object another
\* helper returns from getObject().  A helper is constructed once.
Construct(h, defObject, valueUpdatedCallback, object) ==
    /\ ~helper[h].live /\ ~helper[h].gone
    /\ helper' = [helper EXCEPT ![h] =
                    [live |-> TRUE, gone |-> FALSE, built |-> FALSE,
                     defObject |-> defObject, object |-> object,
                     valueUpdatedCallback |-> valueUpdatedCallback]]
    /\ last' = [NoLast EXCEPT !.op = "construct", !.h = h]
    /\ UNCHANGED <<objects, objInst, res, shadow>>

\* The creation calls of one makeObject that the environment may fail:
\* <<0, "object">>, <<0, "instance">>, and per definition entry x the
\* base resource <<x, "base">> and the resource (instance) <<x, "resource">>.
FailLabels(defObject) ==
    IF defObject = NULL THEN {}
    ELSE {<<0, "object">>, <<0, "instance">>}
         \cup ((1..Len(DefTable[defObject].resources)) \X {"base", "resource"})

FailSets(defObject) ==
    {f \in SUBSET FailLabels(defObject) : Cardinality(f) <= MaxFail}

LogEntry(call, x, ok) == [call |-> call, x |-> x, ok |-> ok]

\* MakeResource creating the base of a multi-instance resource for every
\* entry, without looking whether it is there.
MakeResourceAlwaysBase(st, o, id, d, x, fail, callback) ==
    LET needBase == d.instance # SingleInstance
        base == IF needBase
                THEN create_dynamic_resource(st.res, o, id, d, TRUE, <<x, "base">> \in fail)
                ELSE [res |-> st.res, ok |-> TRUE]
        all1 == st.all /\ base.ok
        log1 == IF needBase
                THEN Append(st.log, LogEntry("create_dynamic_resource(multi)", x, base.ok))
                ELSE st.log
    IN  IF d.instance >= 0
        THEN LET c == create_dynamic_resource_instance(base.res, o, id, d,
                                                       <<x, "resource">> \in fail)
             IN  [res |-> IF c.ok
                          THEN Configure(c.res, InstKey(o, id, d.name, d.instance), d, callback)
                          ELSE c.res,
                  all |-> all1 /\ c.ok,
                  log |-> Append(log1, LogEntry("create_dynamic_resource_instance", x, c.ok))]
        ELSE LET c == create_dynamic_resource(base.res, o, id, d, FALSE,
                                              <<x, "resource">> \in fail)
             IN  [res |-> IF c.ok
                          THEN Configure(c.res, ResKey(o, id, d.name), d, callback)
                          ELSE c.res,
                  all |-> all1 /\ c.ok,
                  log |-> Append(log1, LogEntry("create_dynamic_resource", x, c.ok))]

\* The body of makeObject's loop for entry x (lines 70-124), on
\* st = [res, all |-> allResourcesCreated, log |-> the creation calls made].
MakeResource(st, o, id, d, x, fail, callback) ==
    LET needBase == d.instance # SingleInstance /\ ~resource(st.res, o, id, d.name)
        base == IF needBase
                THEN create_dynamic_resource(st.res, o, id, d, TRUE, <<x, "base">> \in fail)
                ELSE [res |-> st.res, ok |-> TRUE]
        all1 == st.all /\ base.ok
        log1 == IF needBase
                THEN Append(st.log, LogEntry("create_dynamic_resource(multi)", x, base.ok))
                ELSE st.log
    IN  IF d.instance >= 0
        THEN LET c == create_dynamic_resource_instance(base.res, o, id, d,
                                                       <<x, "resource">> \in fail)
             IN  [res |-> IF c.ok
                          THEN Configure(c.res, InstKey(o, id, d.name, d.instance), d, callback)
                          ELSE c.res,
                  all |-> all1 /\ c.ok,
                  log |-> Append(log1, LogEntry("create_dynamic_resource_instance", x, c.ok))]
        ELSE LET c == create_dynamic_resource(base.res, o, id, d, FALSE,
                                              <<x, "resource">> \in fail)
             IN  [res |-> IF c.ok
                          THEN Configure(c.res, ResKey(o, id, d.name), d, callback)
                          ELSE c.res,
                  all |-> all1 /\ c.ok,
                  log |-> Append(log1, LogEntry("create_dynamic_resource", x, c.ok))]

RECURSIVE MakeResourcesStopAtFailure(_, _, _, _, _, _, _)
\* MakeResources leaving the loop at the first creation that fails.
MakeResourcesStopAtFailure(st, o, id, resources, x, fail, callback) ==
    IF x > Len(resources) \/ ~st.all THEN st
    ELSE MakeResourcesStopAtFailure(
             MakeResource(st, o, id, resources[x], x, fail, callback),
             o, id, resources, x + 1, fail, callback)

RECURSIVE MakeResources(_, _, _, _, _, _, _)
\* makeObject's loop (line 69) from entry x on.
MakeResources(st, o, id, resources, x, fail, callback) ==
    IF x > Len(resources) THEN st
    ELSE MakeResources(MakeResource(st, o, id, resources[x], x, fail, callback),
                       o, id, resources, x + 1, fail, callback)

\* MakeReturn without the test of objectInstance.
MakeReturnIgnoresInstance(assigned, objectInstance, indeterminate, allResourcesCreated) ==
    allResourcesCreated

\* The value makeObject returns (line 136).  objectInstance is an
\* uninitialised local when it was never assigned (assigned = FALSE): the
\* comparison then reads an indeterminate value.
MakeReturn(assigned, objectInstance, indeterminate, allResourcesCreated) ==
    (IF assigned THEN objectInstance ELSE indeterminate) /\ allResourcesCreated

\* _object points to an object that has been deleted: every call through
\* it is a use after free.
Dangling(hp, obs) == hp.object # NULL /\ hp.object \notin obs

\* makeObject(): `fail` are the creation calls the environment fails,
\* `indeterminate` the truth of (objectInstance != NULL) when objectInstance
\* was never assigned, and the result of a call through a deleted _object
\* (which faults or goes on with an indeterminate result).
makeObject(h, fail, indeterminate) ==
    /\ helper[h].live
    /\ IF helper[h].defObject # NULL /\ Dangling(helper[h], objects)
       THEN /\ fail = {}
            /\ \E fault \in BOOLEAN :
                  /\ fault => ~indeterminate
                  /\ last' = [NoLast EXCEPT !.op = "makeObject", !.h = h,
                                 !.uaf = TRUE, !.fault = fault, !.ok = indeterminate]
            /\ UNCHANGED <<helper, objects, objInst, res>>
       ELSE
       LET hp       == helper[h]
           haveDef  == hp.defObject # NULL
           def      == DefTable[hp.defObject]
           create   == haveDef /\ hp.object = NULL
           createOk == create /\ <<0, "object">> \notin fail
           o        == IF createOk THEN h ELSE hp.object
           log0     == IF create THEN <<LogEntry("create_object", 0, createOk)>> ELSE <<>>
           tryInst  == haveDef /\ o # NULL
           id       == def.instance % 65536
           instOk   == tryInst /\ <<0, "instance">> \notin fail /\ <<o, id>> \notin objInst
           log1     == IF tryInst
                       THEN Append(log0, LogEntry("create_object_instance", 0, instOk))
                       ELSE log0
           st       == IF instOk
                       THEN MakeResources([res |-> res, all |-> TRUE, log |-> log1],
                                          o, id, def.resources, 1, fail, hp.valueUpdatedCallback)
                       ELSE [res |-> res, all |-> TRUE, log |-> log1]
       IN  /\ tryInst => ~indeterminate
           /\ helper' = [helper EXCEPT ![h].object = o, ![h].built = @ \/ instOk]
           /\ objects' = IF createOk THEN objects \cup {o} ELSE objects
           /\ objInst' = IF instOk THEN objInst \cup {<<o, id>>} ELSE objInst
           /\ res' = st.res
           /\ last' = [NoLast EXCEPT !.op = "makeObject", !.h = h, !.log = st.log,
                          !.ok = MakeReturn(tryInst, instOk, indeterminate, st.all)]
    /\ UNCHANGED shadow

\* ------------------------------------------------------------ the accessors
\* FindDef comparing the name only.
FindDefByName(resources, name, wantedInstance) ==
    LET hits == {x \in 1..Len(resources) : resources[x].name = name}
    IN  IF hits = {} THEN 0 ELSE CHOOSE x \in hits : \A y \in hits : x <= y

\* The loop of every public overload (e.g. lines 179-185): the index of the
\* first entry with that name and that instance, 0 when there is none.
FindDef(resources, name, wantedInstance) ==
    LET hits == {x \in 1..Len(resources) :
                    /\ resources[x].name = name
                    /\ resources[x].instance = wantedInstance}
    IN  IF hits = {} THEN 0 ELSE CHOOSE x \in hits : \A y \in hits : x <= y

\* Accepts with the int64_t overloads also taking a Boolean resource.
AcceptsBooleanAsInteger(app, type) ==
    CASE app = "int64" -> type \in {"INTEGER", "TIME", "BOOLEAN"}
      [] app = "float" -> type = "FLOAT"
      [] app = "bool" -> type = "BOOLEAN"
      [] OTHER -> type = "STRING"

\* Accepts with the String overloads also taking an Opaque resource.
AcceptsOpaqueAsString(app, type) ==
    CASE app = "int64" -> type \in {"INTEGER", "TIME"}
      [] app = "float" -> type = "FLOAT"
      [] app = "bool" -> type = "BOOLEAN"
      [] OTHER -> type \in {"STRING", "OPAQUE"}

\* The kinds each public overload hands on to the private accessor
\* (lines 187-189, 217, 245, 277, 308 and 338-340, 369, 398, 429, 465).
Accepts(app, type) ==
    CASE app = "int64" -> type \in {"INTEGER", "TIME"}
      [] app = "float" -> type = "FLOAT"
      [] app = "bool" -> type = "BOOLEAN"
      [] OTHER -> type = "STRING"

\* The format argument of the private setResourceValue: the String and
\* const char * overloads pass the entry's format (lines 282, 313), the
\* others leave the parameter at its default, NULL (m2m_object_helper.h:593).
PassedFormat(app, d) == IF app \in {"cstr", "String"} THEN d.format ELSE NoFormat

\* StoredText with the terminator of a String counted into the stored length.
StoredTextWithTerminator(type, val, format) ==
    CASE type = "STRING" -> val.str \o <<"NUL">>
      [] type \in {"INTEGER", "TIME"} -> IntText(val.int)
      [] type = "BOOLEAN" -> IntText(IF val.bool THEN 1 ELSE 0)
      [] type = "FLOAT" ->
            BufferBytes(snprintf(IF format = NoFormat THEN "%f" ELSE format, val))

\* The text a set stores for its kind (lines 537-577); for a Float the
\* bytes that lie inside the buffer.
StoredText(type, val, format) ==
    CASE type = "STRING" -> val.str
      [] type \in {"INTEGER", "TIME"} -> IntText(val.int)
      [] type = "BOOLEAN" -> IntText(IF val.bool THEN 1 ELSE 0)
      [] type = "FLOAT" ->
            BufferBytes(snprintf(IF format = NoFormat THEN "%f" ELSE format, val))

\* Resolve using the resource itself when the resource instance is missing.
ResolveFallsBackToResource(hp, r, oi, name, wantedInstance) ==
    LET o  == hp.object
        id == DefTable[hp.defObject].instance % 65536
    IN  IF o = NULL THEN [found |-> FALSE, key |-> <<>>, calls |-> <<>>]
        ELSE IF ~object_instance(oi, o, id)
        THEN [found |-> FALSE, key |-> <<>>, calls |-> <<"object_instance">>]
        ELSE IF ~resource(r, o, id, name)
        THEN [found |-> FALSE, key |-> <<>>,
              calls |-> <<"object_instance", "resource">>]
        ELSE IF supports_multiple_instances(r, o, id, name)
                /\ resource_instance(r, o, id, name, wantedInstance)
        THEN [found |-> TRUE,
              key |-> InstKey(o, id, name, wantedInstance % 65536),
              calls |-> <<"object_instance", "resource",
                          "supports_multiple_instances", "resource_instance">>]
        ELSE [found |-> TRUE, key |-> ResKey(o, id, name),
              calls |-> <<"object_instance", "resource",
                          "supports_multiple_instances">>]

\* Resolve without the test of _object.
ResolveWithoutObjectTest(hp, r, oi, name, wantedInstance) ==
    LET o  == hp.object
        id == DefTable[hp.defObject].instance % 65536
    IN  IF ~object_instance(oi, o, id)
        THEN [found |-> FALSE, key |-> <<>>, calls |-> <<"object_instance">>]
        ELSE IF ~resource(r, o, id, name)
        THEN [found |-> FALSE, key |-> <<>>,
              calls |-> <<"object_instance", "resource">>]
        ELSE IF supports_multiple_instances(r, o, id, name)
        THEN [found |-> resource_instance(r, o, id, name, wantedInstance),
              key |-> InstKey(o, id, name, wantedInstance % 65536),
              calls |-> <<"object_instance", "resource",
                          "supports_multiple_instances", "resource_instance">>]
        ELSE [found |-> TRUE, key |-> ResKey(o, id, name),
              calls |-> <<"object_instance", "resource",
                          "supports_multiple_instances">>]

\* The resource or resource instance the private accessors reach
\* (lines 517-534, 618-634): [found, key, calls], calls being the calls
\* into the object model.
Resolve(hp, r, oi, name, wantedInstance) ==
    LET o  == hp.object
        id == DefTable[hp.defObject].instance % 65536
    IN  IF o = NULL THEN [found |-> FALSE, key |-> <<>>, calls |-> <<>>]
        ELSE IF ~object_instance(oi, o, id)
        THEN [found |-> FALSE, key |-> <<>>, calls |-> <<"object_instance">>]
        ELSE IF ~resource(r, o, id, name)
        THEN [found |-> FALSE, key |-> <<>>,
              calls |-> <<"object_instance", "resource">>]
        ELSE IF supports_multiple_instances(r, o, id, name)
        THEN [found |-> resource_instance(r, o, id, name, wantedInstance),
              key |-> InstKey(o, id, name, wantedInstance % 65536),
              calls |-> <<"object_instance", "resource",
                          "supports_multiple_instances", "resource_instance">>]
        ELSE [found |-> TRUE, key |-> ResKey(o, id, name),
              calls |-> <<"object_instance", "resource",
                          "supports_multiple_instances">>]

\* SetPrivate storing on the resource also when a resource instance was
\* resolved.
SetPrivateOnResource(hp, r, oi, val, type, name, wantedInstance, format, envOk) ==
    LET t   == Resolve(hp, r, oi, name, wantedInstance)
        key == ResKey(hp.object, DefTable[hp.defObject].instance % 65536, name)
    IN  IF t.found /\ type \in {"STRING", "INTEGER", "TIME", "BOOLEAN", "FLOAT"}
        THEN [res |-> IF envOk
                      THEN [r EXCEPT ![key].value = StoredText(type, val, format)]
                      ELSE r,
              ok |-> envOk, key |-> key, calls |-> Append(t.calls, "set_value")]
        ELSE [res |-> r, ok |-> FALSE, key |-> <<>>, calls |-> t.calls]

\* SetPrivate storing the value also when set_value() reports a failure.
SetPrivateStoresOnFailure(hp, r, oi, val, type, name, wantedInstance, format, envOk) ==
    LET t == Resolve(hp, r, oi, name, wantedInstance)
    IN  IF t.found /\ type \in {"STRING", "INTEGER", "TIME", "BOOLEAN", "FLOAT"}
        THEN [res |-> [r EXCEPT ![t.key].value = StoredText(type, val, format)],
              ok |-> envOk, key |-> t.key, calls |-> Append(t.calls, "set_value")]
        ELSE [res |-> r, ok |-> FALSE, key |-> <<>>, calls |-> t.calls]

\* The private setResourceValue(const void *, type, ...) (lines 502-602):
\* [res, ok, key, calls].  envOk is what set_value() of a resolved resource
\* returns; a set_value that fails stores nothing.
SetPrivate(hp, r, oi, val, type, name, wantedInstance, format, envOk) ==
    LET t == Resolve(hp, r, oi, name, wantedInstance)
    IN  IF t.found /\ type \in {"STRING", "INTEGER", "TIME", "BOOLEAN", "FLOAT"}
        THEN [res |-> IF envOk
                      THEN [r EXCEPT ![t.key].value = StoredText(type, val, format)]
                      ELSE r,
              ok |-> envOk, key |-> t.key, calls |-> Append(t.calls, "set_value")]
        ELSE [res |-> r, ok |-> FALSE, key |-> <<>>, calls |-> t.calls]

\* GetPrivate failing on a resource or resource instance without a value.
GetPrivateUnsetFails(hp, r, oi, out, type, name, wantedInstance) ==
    LET t    == Resolve(hp, r, oi, name, wantedInstance)
        text == r[t.key].value
    IN  IF ~t.found \/ text = <<>>
        THEN [ok |-> FALSE, val |-> out, key |-> <<>>, calls |-> t.calls]
        ELSE CASE type = "STRING" ->
                    [ok |-> TRUE, val |-> [out EXCEPT !.str = text], key |-> t.key,
                     calls |-> Append(t.calls, "get_value_string")]
               [] type \in {"INTEGER", "TIME"} ->
                    [ok |-> TRUE, val |-> [out EXCEPT !.int = TextInt(text)],
                     key |-> t.key, calls |-> Append(t.calls, "get_value_int")]
               [] type = "BOOLEAN" ->
                    [ok |-> TRUE, val |-> [out EXCEPT !.bool = (TextInt(text) # 0)],
                     key |-> t.key, calls |-> Append(t.calls, "get_value_int")]
               [] OTHER ->
                    [ok |-> TRUE,
                     val |-> IF ScanFloat(text).ok
                             THEN [out EXCEPT !.flt = ScanFloat(text).v] ELSE out,
                     key |-> t.key, calls |-> Append(t.calls, "get_value_string")]

\* GetPrivate returning for a Float whether the text was converted.
GetPrivateFloatChecksParse(hp, r, oi, out, type, name, wantedInstance) ==
    LET t    == Resolve(hp, r, oi, name, wantedInstance)
        text == r[t.key].value
    IN  IF ~t.found THEN [ok |-> FALSE, val |-> out, key |-> <<>>, calls |-> t.calls]
        ELSE CASE type = "STRING" ->
                    [ok |-> TRUE, val |-> [out EXCEPT !.str = text], key |-> t.key,
                     calls |-> Append(t.calls, "get_value_string")]
               [] type \in {"INTEGER", "TIME"} ->
                    [ok |-> TRUE, val |-> [out EXCEPT !.int = TextInt(text)],
                     key |-> t.key, calls |-> Append(t.calls, "get_value_int")]
               [] type = "BOOLEAN" ->
                    [ok |-> TRUE, val |-> [out EXCEPT !.bool = (TextInt(text) # 0)],
                     key |-> t.key, calls |-> Append(t.calls, "get_value_int")]
               [] type = "FLOAT" ->
                    [ok |-> ScanFloat(text).ok,
                     val |-> IF ScanFloat(text).ok
                             THEN [out EXCEPT !.flt = ScanFloat(text).v] ELSE out,
                     key |-> t.key, calls |-> Append(t.calls, "get_value_string")]
               [] OTHER ->
                    [ok |-> FALSE, val |-> out, key |-> <<>>, calls |-> t.calls]

\* GetPrivate reading a Boolean as true only when the stored integer is 1.
GetPrivateBooleanIsOne(hp, r, oi, out, type, name, wantedInstance) ==
    LET t    == Resolve(hp, r, oi, name, wantedInstance)
        text == r[t.key].value
    IN  IF ~t.found THEN [ok |-> FALSE, val |-> out, key |-> <<>>, calls |-> t.calls]
        ELSE CASE type = "STRING" ->
                    [ok |-> TRUE, val |-> [out EXCEPT !.str = text], key |-> t.key,
                     calls |-> Append(t.calls, "get_value_string")]
               [] type \in {"INTEGER", "TIME"} ->
                    [ok |-> TRUE, val |-> [out EXCEPT !.int = TextInt(text)],
                     key |-> t.key, calls |-> Append(t.calls, "get_value_int")]
               [] type = "BOOLEAN" ->
                    [ok |-> TRUE, val |-> [out EXCEPT !.bool = (TextInt(text) = 1)],
                     key |-> t.key, calls |-> Append(t.calls, "get_value_int")]
               [] type = "FLOAT" ->
                    [ok |-> TRUE,
                     val |-> IF ScanFloat(text).ok
                             THEN [out EXCEPT !.flt = ScanFloat(text).v] ELSE out,
                     key |-> t.key, calls |-> Append(t.calls, "get_value_string")]
               [] OTHER ->
                    [ok |-> FALSE, val |-> out, key |-> <<>>, calls |-> t.calls]

\* GetPrivate writing a default to the caller's variable when the resource
\* is not found.
GetPrivateClearsOnFailure(hp, r, oi, out, type, name, wantedInstance) ==
    LET t    == Resolve(hp, r, oi, name, wantedInstance)
        text == r[t.key].value
    IN  IF ~t.found THEN [ok |-> FALSE, val |-> AppValue(0, 0, FALSE, <<>>), key |-> <<>>,
                          calls |-> t.calls]
        ELSE CASE type = "STRING" ->
                    [ok |-> TRUE, val |-> [out EXCEPT !.str = text], key |-> t.key,
                     calls |-> Append(t.calls, "get_value_string")]
               [] type \in {"INTEGER", "TIME"} ->
                    [ok |-> TRUE, val |-> [out EXCEPT !.int = TextInt(text)],
                     key |-> t.key, calls |-> Append(t.calls, "get_value_int")]
               [] type = "BOOLEAN" ->
                    [ok |-> TRUE, val |-> [out EXCEPT !.bool = (TextInt(text) # 0)],
                     key |-> t.key, calls |-> Append(t.calls, "get_value_int")]
               [] type = "FLOAT" ->
                    [ok |-> TRUE,
                     val |-> IF ScanFloat(text).ok
                             THEN [out EXCEPT !.flt = ScanFloat(text).v] ELSE out,
                     key |-> t.key, calls |-> Append(t.calls, "get_value_string")]
               [] OTHER ->
                    [ok |-> FALSE, val |-> out, key |-> <<>>, calls |-> t.calls]

\* The private getResourceValue(void *, type, ...) (lines 605-702) on the
\* caller's variable out: [ok, val, key, calls].
GetPrivate(hp, r, oi, out, type, name, wantedInstance) ==
    LET t    == Resolve(hp, r, oi, name, wantedInstance)
        text == r[t.key].value
    IN  IF ~t.found THEN [ok |-> FALSE, val |-> out, key |-> <<>>, calls |-> t.calls]
        ELSE CASE type = "STRING" ->
                    [ok |-> TRUE, val |-> [out EXCEPT !.str = text], key |-> t.key,
                     calls |-> Append(t.calls, "get_value_string")]
               [] type \in {"INTEGER", "TIME"} ->
                    [ok |-> TRUE, val |-> [out EXCEPT !.int = TextInt(text)],
                     key |-> t.key, calls |-> Append(t.calls, "get_value_int")]
               [] type = "BOOLEAN" ->
                    [ok |-> TRUE, val |-> [out EXCEPT !.bool = (TextInt(text) # 0)],
                     key |-> t.key, calls |-> Append(t.calls, "get_value_int")]
               [] type = "FLOAT" ->
                    [ok |-> TRUE,
                     val |-> IF ScanFloat(text).ok
                             THEN [out EXCEPT !.flt = ScanFloat(text).v] ELSE out,
                     key |-> t.key, calls |-> Append(t.calls, "get_value_string")]
               [] OTHER ->
                    [ok |-> FALSE, val |-> out, key |-> <<>>, calls |-> t.calls]

\* The key under which the history records a set through helper h on
\* (name, wantedInstance).
CellOf(h, name, wantedInstance) ==
    <<helper[h].object, DefTable[helper[h].defObject].instance, name, wantedInstance>>

\* The public setResourceValue overloads (lines 170-317), app naming the
\* overload.  With no definition the loop dereferences a null _defObject,
\* and with a deleted _object the private accessor uses it after free: the
\* call faults or goes on with an indeterminate result.  A Float whose
\* text is longer than the buffer makes set_value() read `length` bytes
\* from a buffer of BufferSize: the bytes past its end are indeterminate.
\* The char * overload makes a String with new (line 264) before the lookup
\* and has no delete: last.allocated and last.released count the two.
setResourceValue(h, app, val, name, wantedInstance, envOk, fault, indeterminate) ==
    /\ helper[h].live
    /\ LET hp == helper[h]
           call == [NoLast EXCEPT !.op = "set", !.h = h, !.app = app, !.val = val,
                                  !.name = name, !.inst = wantedInstance,
                                  !.allocated = IF app = "cstr" THEN 1 ELSE 0]
       IN  IF hp.defObject = NULL
           THEN /\ envOk /\ (fault => ~indeterminate)
                /\ last' = [call EXCEPT !.fault = fault, !.ok = indeterminate]
                /\ UNCHANGED <<res, shadow>>
           ELSE LET resources == DefTable[hp.defObject].resources
                    x == FindDef(resources, name, wantedInstance)
                IN  IF x # 0 /\ Accepts(app, resources[x].type)
                       /\ Dangling(hp, objects)
                    THEN /\ envOk /\ (fault => ~indeterminate)
                         /\ last' = [call EXCEPT !.uaf = TRUE, !.fault = fault,
                                                 !.ok = indeterminate]
                         /\ UNCHANGED <<res, shadow>>
                    ELSE IF x # 0 /\ Accepts(app, resources[x].type)
                    THEN LET s == SetPrivate(hp, res, objInst, val, resources[x].type,
                                             name, wantedInstance,
                                             PassedFormat(app, resources[x]), envOk)
                             format == PassedFormat(app, resources[x])
                             length == IF resources[x].type = "FLOAT" /\ s.key # <<>>
                                       THEN snprintf(IF format = NoFormat THEN "%f"
                                                     ELSE format, val).length
                                       ELSE 0
                             over == IF length > BufferSize
                                     THEN length - BufferSize ELSE 0
                             junk == IF indeterminate THEN "?" ELSE "NUL"
                         IN  /\ ~fault
                             /\ indeterminate => (over > 0 /\ s.ok)
                             /\ envOk \/ s.key # <<>>
                             /\ res' = IF s.ok /\ over > 0
                                       THEN [s.res EXCEPT ![s.key].value =
                                                @ \o [i \in 1..over |-> junk]]
                                       ELSE s.res
                             /\ shadow' = IF s.ok
                                          THEN [k \in DOMAIN shadow
                                                    \cup {CellOf(h, name, wantedInstance)} |->
                                                  IF k = CellOf(h, name, wantedInstance)
                                                  THEN val
                                                  ELSE shadow[k]]
                                          ELSE shadow
                             /\ last' = [call EXCEPT !.ok = s.ok, !.calls = s.calls,
                                                     !.length = length]
                    ELSE /\ envOk /\ ~fault /\ ~indeterminate
                         /\ last' = call
                         /\ UNCHANGED <<res, shadow>>
    /\ UNCHANGED <<helper, objects, objInst>>

\* The caller's buffer and the byte after it, before a get.
PriorMem == [i \in 1..(MaxLen + 1) |-> "?"]

\* CopyOut cutting the String to len characters.
CopyOutNoRoomForTerminator(mem, str, len) ==
    IF len > 0
    THEN LET cut == IF Len(str) > len THEN SubSeq(str, 1, len) ELSE str
         IN  [i \in DOMAIN mem |->
                 IF i <= Len(cut) THEN cut[i]
                 ELSE IF i = Len(cut) + 1 THEN "NUL" ELSE mem[i]]
    ELSE mem

\* Lines 432-440: the String is cut to len - 1 characters, copied to the
\* buffer and terminated; with len = 0 the buffer is left alone.
CopyOut(mem, str, len) ==
    IF len > 0
    THEN LET cut == IF Len(str) > len - 1 THEN SubSeq(str, 1, len - 1) ELSE str
         IN  [i \in DOMAIN mem |->
                 IF i <= Len(cut) THEN cut[i]
                 ELSE IF i = Len(cut) + 1 THEN "NUL" ELSE mem[i]]
    ELSE mem

\* The public getResourceValue overloads (lines 320-473); "cstr" is the
\* overload on a char buffer of len bytes.  out is the caller's variable
\* before the call.  The char buffer overload makes a String with new
\* (line 417) before the lookup and has no delete.
getResourceValue(h, app, out, len, name, wantedInstance, fault, indeterminate) ==
    /\ helper[h].live
    /\ LET hp == helper[h]
           call == [NoLast EXCEPT !.op = "get", !.h = h, !.app = app, !.val = out,
                                  !.prior = out, !.len = len, !.mem = PriorMem,
                                  !.name = name, !.inst = wantedInstance,
                                  !.allocated = IF app = "cstr" THEN 1 ELSE 0]
       IN  IF hp.defObject = NULL
           THEN /\ fault => ~indeterminate
                /\ last' = [call EXCEPT !.fault = fault, !.ok = indeterminate]
           ELSE LET resources == DefTable[hp.defObject].resources
                    x == FindDef(resources, name, wantedInstance)
                    g == GetPrivate(hp, res, objInst, out, resources[x].type,
                                    name, wantedInstance)
                IN  IF x # 0 /\ Accepts(app, resources[x].type)
                       /\ Dangling(hp, objects)
                    THEN /\ fault => ~indeterminate
                         /\ last' = [call EXCEPT !.uaf = TRUE, !.fault = fault,
                                                 !.ok = indeterminate]
                    ELSE
                    /\ ~fault /\ ~indeterminate
                    /\ last' =
                         IF x # 0 /\ Accepts(app, resources[x].type)
                         THEN IF app = "cstr"
                              THEN [call EXCEPT
                                      !.ok = g.ok, !.calls = g.calls,
                                      !.mem = IF g.ok
                                              THEN CopyOut(PriorMem, g.val.str, len)
                                              ELSE PriorMem]
                              ELSE [call EXCEPT !.ok = g.ok, !.calls = g.calls,
                                                !.val = g.val]
                         ELSE call
    /\ UNCHANGED <<helper, objects, objInst, res, shadow>>

\* ------------------------------------------------------------- execute
\* setExecuteCallback refusing a resource that does not allow POST.
setExecuteCallbackPostOnly(h, name, envOk, fault, indeterminate) ==
    /\ helper[h].live
    /\ LET hp   == helper[h]
           call == [NoLast EXCEPT !.op = "execute", !.h = h, !.name = name]
           o    == hp.object
           id   == DefTable[hp.defObject].instance % 65536
       IN  IF o = NULL
           THEN /\ envOk /\ ~fault /\ ~indeterminate
                /\ last' = call
                /\ res' = res
           ELSE IF hp.defObject = NULL \/ Dangling(hp, objects)
           THEN /\ envOk /\ (fault => ~indeterminate)
                /\ last' = [call EXCEPT !.uaf = Dangling(hp, objects),
                                        !.fault = fault, !.ok = indeterminate]
                /\ res' = res
           ELSE IF ~object_instance(objInst, o, id)
           THEN /\ envOk /\ ~fault /\ ~indeterminate
                /\ last' = [call EXCEPT !.calls = <<"object_instance">>]
                /\ res' = res
           ELSE IF ~resource(res, o, id, name)
                   \/ res[ResKey(o, id, name)].operation # "POST_ALLOWED"
           THEN /\ envOk /\ ~fault /\ ~indeterminate
                /\ last' = [call EXCEPT !.calls = <<"object_instance", "resource">>]
                /\ res' = res
           ELSE /\ ~fault /\ ~indeterminate
                /\ last' = [call EXCEPT !.ok = envOk,
                              !.calls = <<"object_instance", "resource",
                                          "set_execute_function">>]
                /\ res' = IF envOk
                          THEN [res EXCEPT ![ResKey(o, id, name)].execute = TRUE]
                          ELSE res
    /\ UNCHANGED <<helper, objects, objInst, shadow>>

\* setExecuteCallback(callback, resourceNumber) (lines 140-166): attaches
\* the callback to the M2MResource of that name.  envOk is what
\* set_execute_function() returns.  Nothing is tested before
\* _defObject->instance is read, so with an object and no definition, or
\* with a deleted object, the call faults or goes on with an indeterminate
\* result.
setExecuteCallback(h, name, envOk, fault, indeterminate) ==
    /\ helper[h].live
    /\ LET hp   == helper[h]
           call == [NoLast EXCEPT !.op = "execute", !.h = h, !.name = name]
           o    == hp.object
           id   == DefTable[hp.defObject].instance % 65536
       IN  IF o = NULL
           THEN /\ envOk /\ ~fault /\ ~indeterminate
                /\ last' = call
                /\ res' = res
           ELSE IF hp.defObject = NULL \/ Dangling(hp, objects)
           THEN /\ envOk /\ (fault => ~indeterminate)
                /\ last' = [call EXCEPT !.uaf = Dangling(hp, objects),
                                        !.fault = fault, !.ok = indeterminate]
                /\ res' = res
           ELSE IF ~object_instance(objInst, o, id)
           THEN /\ envOk /\ ~fault /\ ~indeterminate
                /\ last' = [call EXCEPT !.calls = <<"object_instance">>]
                /\ res' = res
           ELSE IF ~resource(res, o, id, name)
           THEN /\ envOk /\ ~fault /\ ~indeterminate
                /\ last' = [call EXCEPT !.calls = <<"object_instance", "resource">>]
                /\ res' = res
           ELSE /\ ~fault /\ ~indeterminate
                /\ last' = [call EXCEPT !.ok = envOk,
                              !.calls = <<"object_instance", "resource",
                                          "set_execute_function">>]
                /\ res' = IF envOk
                          THEN [res EXCEPT ![ResKey(o, id, name)].execute = TRUE]
                          ELSE res
    /\ UNCHANGED <<helper, objects, objInst, shadow>>

\* ------------------------------------------------------------ teardown
\* M2MObject::remove_object_instance(id): the object instance goes, and its
\* resources and resource instances with it.
remove_object_instance(r, o, id) ==
    [k \in {k \in DOMAIN r : ~(k[1] = o /\ k[2] = id)} |-> r[k]]

\* M2MObject::instance_count().
instance_count(oi, o) == Cardinality({i \in oi : i[1] = o})

\* DeletesObject deleting the object whatever instances remain.
DeletesObjectAlways(oi, o) == TRUE

\* Line 37: the destructor deletes _object when no instance is left.
DeletesObject(oi, o) == instance_count(oi, o) = 0

\* ~M2MObjectHelper() (lines 28-41).  With a deleted _object every call is
\* a use after free: the destructor faults, or goes on and may delete the
\* object again (`again`).  With an object and no definition the instance
\* id is read through a null pointer: the destructor faults, or goes on
\* with an indeterminate id (`wild`).
Destroy(h, fault, again, wild) ==
    /\ helper[h].live
    /\ helper' = [helper EXCEPT ![h].live = FALSE, ![h].gone = TRUE]
    /\ LET hp   == helper[h]
           call == [NoLast EXCEPT !.op = "destroy", !.h = h]
           o    == hp.object
           id   == IF hp.defObject = NULL THEN wild
                   ELSE DefTable[hp.defObject].instance % 65536
           oi1  == objInst \ {<<o, id>>}
           gone == DeletesObject(oi1, o)
       IN  IF o = NULL
           THEN /\ ~fault /\ ~again /\ wild = 0
                /\ last' = call
                /\ UNCHANGED <<objects, objInst, res, shadow>>
           ELSE IF Dangling(hp, objects)
           THEN /\ fault => ~again
                /\ wild = 0
                /\ last' = [call EXCEPT !.uaf = TRUE, !.fault = fault,
                                        !.deleted = again]
                /\ UNCHANGED <<objects, objInst, res, shadow>>
           ELSE IF hp.defObject = NULL /\ fault
           THEN /\ ~again /\ wild = 0
                /\ last' = [call EXCEPT !.fault = TRUE]
                /\ UNCHANGED <<objects, objInst, res, shadow>>
           ELSE /\ ~fault /\ ~again
                /\ hp.defObject # NULL => wild = 0
                /\ objInst' = oi1
                /\ res' = remove_object_instance(res, o, id)
                /\ shadow' = remove_object_instance(shadow, o, id)
                /\ objects' = IF gone THEN objects \ {o} ELSE objects
                /\ last' = [call EXCEPT !.deleted = gone,
                              !.calls = <<"object_instance">>
                                  \o (IF <<o, id>> \in objInst
                                      THEN <<"remove_object_instance">> ELSE <<>>)
                                  \o <<"instance_count">>
                                  \o (IF gone THEN <<"delete">> ELSE <<>>)]

\* --------------------------------------------------------- other parties
\* The LWM2M server writes a resource that allows PUT: the object model
\* stores the text it sent.
ServerWrite(key, text) ==
    /\ key \in DOMAIN res
    /\ res[key].operation = "GET_PUT_ALLOWED"
    /\ res' = [res EXCEPT ![key].value = text]
    /\ shadow' = [k \in DOMAIN shadow \ {key} |-> shadow[k]]
    /\ last' = [NoLast EXCEPT !.op = "write"]
    /\ UNCHANGED <<helper, objects, objInst>>

\* ------------------------------------------------------- specifications
\* The (name, instance) pairs helper h's accessors are called with: the
\* declared pairs, an undeclared name, and every declared name with the
\* sentinel and with instance 0.
Targets(h) ==
    IF helper[h].defObject = NULL THEN {<<"5700", SingleInstance>>}
    ELSE LET resources == DefTable[helper[h].defObject].resources
             names == {resources[x].name : x \in 1..Len(resources)}
         IN  {<<resources[x].name, resources[x].instance>> : x \in 1..Len(resources)}
             \cup {<<"9999", SingleInstance>>}
             \cup (names \X {SingleInstance, 0})

\* The caller's variable before a get: a bool is tried from both values.
PriorsOf(app) == IF app = "bool" THEN {Prior, [Prior EXCEPT !.bool = TRUE]} ELSE {Prior}

\* The capacities of the caller's buffer: only the char * overload has one.
LensOf(app) == IF app = "cstr" THEN 0..MaxLen ELSE {0}

\* Construction and makeObject of both helpers, with creation failures.
Next ==
    \/ \E h \in Helpers : \E d \in DefsOf(h), cb \in BOOLEAN,
                              o \in {NULL} \cup {getObject(g) : g \in Helpers \ {h}} :
          Construct(h, d, cb, o)
    \/ \E h \in Helpers : \E fail \in FailSets(helper[h].defObject), ind \in BOOLEAN :
          makeObject(h, fail, ind)

Spec == Init /\ [][Next]_vars

\* One helper: construction, makeObject, and every accessor overload on
\* every target.
NextAccess ==
    \/ \E d \in DefsOf(1) : Construct(1, d, FALSE, NULL)
    \/ \E ind \in BOOLEAN : makeObject(1, {}, ind)
    \/ \E fault, ind \in BOOLEAN :
          /\ (fault \/ ind) => (helper[1].defObject = NULL)
          /\ \E app \in AppType : \E val \in ValuesOf(app), t \in Targets(1),
                                      envOk \in BOOLEAN :
                setResourceValue(1, app, val, t[1], t[2], envOk, fault, ind)
    \/ \E fault, ind \in BOOLEAN :
          /\ (fault \/ ind) => (helper[1].defObject = NULL)
          /\ \E app \in AppType : \E t \in Targets(1), out \in PriorsOf(app),
                                      len \in LensOf(app) :
                getResourceValue(1, app, out, len, t[1], t[2], fault, ind)

SpecAccess == Init /\ [][NextAccess]_vars

\* Two helpers that may share one object, each with its own definition:
\* construction, makeObject, and sets of every kind on the declared targets.
ShareDef(h) == IF h = 1 THEN 1 ELSE 3

Declared(h) ==
    IF helper[h].defObject = NULL THEN {}
    ELSE LET resources == DefTable[helper[h].defObject].resources
         IN  {<<resources[x].name, resources[x].instance>> : x \in 1..Len(resources)}

NextShare ==
    \/ \E h \in Helpers : \E o \in {NULL} \cup {getObject(g) : g \in Helpers \ {h}} :
          Construct(h, ShareDef(h), FALSE, o)
    \/ \E h \in Helpers : makeObject(h, {}, FALSE)
    \/ \E h \in Helpers : \E app \in {"int64", "float"} :
          \E val \in ValuesOf(app), t \in Declared(h), envOk \in BOOLEAN :
             setResourceValue(h, app, val, t[1], t[2], envOk, FALSE, FALSE)

SpecShare == Init /\ [][NextShare]_vars

\* The life of two helpers that may share one object: construction (the
\* second helper also without a definition), makeObject (the creation of
\* the object instance may fail), a set, and teardown in any order.
LifeDefs(h) == IF h = 1 THEN {1} ELSE {NULL, 3}

\* The instance ids an indeterminate read may produce.
WildIds == {0, 1}

NextLife ==
    \/ \E h \in Helpers : \E d \in LifeDefs(h),
                              o \in {NULL} \cup {getObject(g) : g \in Helpers \ {h}} :
          Construct(h, d, FALSE, o)
    \/ \E h \in Helpers : \E fail \in {{}, {<<0, "instance">>}}, ind \in BOOLEAN :
          makeObject(h, fail, ind)
    \/ \E h \in Helpers : \E fault, ind \in BOOLEAN :
          setResourceValue(h, "float", [Prior EXCEPT !.flt = 150], "5700",
                           SingleInstance, TRUE, fault, ind)
    \/ \E h \in Helpers : \E fault, again \in BOOLEAN, wild \in WildIds :
          Destroy(h, fault, again, wild)

SpecLife == Init /\ [][NextLife]_vars

\* One helper with a switch or with an object of unhandled kinds: every
\* accessor overload on every declared target, setExecuteCallback, and
\* writes by the server; the creation of the object instance may fail.
KindDefs == {2, 4}

ExecNames == {"5605", "5910", "9999"}

\* The texts the server writes: integers other than 0 and 1, and 0.
ServerTexts == {<<"2">>, <<"-", "1">>, <<"0">>}

NextKinds ==
    \/ \E d \in KindDefs : Construct(1, d, FALSE, NULL)
    \/ \E fail \in {{}, {<<0, "instance">>}} : makeObject(1, fail, FALSE)
    \/ \E app \in AppType : \E val \in ValuesOf(app), t \in Declared(1),
                                envOk \in BOOLEAN :
          setResourceValue(1, app, val, t[1], t[2], envOk, FALSE, FALSE)
    \/ \E app \in AppType : \E t \in Declared(1), out \in PriorsOf(app),
                                len \in LensOf(app) :
          getResourceValue(1, app, out, len, t[1], t[2], FALSE, FALSE)
    \/ \E name \in ExecNames, envOk \in BOOLEAN :
          setExecuteCallback(1, name, envOk, FALSE, FALSE)
    \/ \E key \in DOMAIN res, text \in ServerTexts : ServerWrite(key, text)

SpecKinds == Init /\ [][NextKinds]_vars

\* One helper with the set point or with the definition that has an
\* instance below -1: makeObject with failing resource creations, the
\* accessors on the declared targets, and writes by the server of texts
\* that are no number.
EdgeDefs == {5, 6}

EdgeFails(defObject) ==
    {f \in FailSets(defObject) : \A l \in f : l[1] > 0}

EdgeTexts == {<<"a", "b">>, <<"2", ".", "5", "x">>}

NextEdge ==
    \/ \E d \in EdgeDefs : Construct(1, d, FALSE, NULL)
    \/ \E fail \in EdgeFails(helper[1].defObject) : makeObject(1, fail, FALSE)
    \/ \E app \in {"int64", "float"} : \E val \in ValuesOf(app), t \in Declared(1),
                                           envOk \in BOOLEAN :
          setResourceValue(1, app, val, t[1], t[2], envOk, FALSE, FALSE)
    \/ \E app \in AppType : \E t \in Declared(1), out \in PriorsOf(app),
                                len \in LensOf(app) :
          getResourceValue(1, app, out, len, t[1], t[2], FALSE, FALSE)
    \/ \E key \in DOMAIN res, text \in EdgeTexts : ServerWrite(key, text)

SpecEdge == Init /\ [][NextEdge]_vars

\* Two helpers of one class, so with the same definition and instance id,
\* that may share one object: construction, makeObject, an Integer set and
\* teardown.
NextClash ==
    \/ \E h \in Helpers : \E o \in {NULL} \cup {getObject(g) : g \in Helpers \ {h}} :
          Construct(h, 1, FALSE, o)
    \/ \E h \in Helpers : \E ind \in BOOLEAN : makeObject(h, {}, ind)
    \/ \E h \in Helpers : \E val \in ValuesOf("int64"), fault, ind \in BOOLEAN :
          setResourceValue(h, "int64", val, "5601", 0, TRUE, fault, ind)
    \/ \E h \in Helpers : \E fault, again \in BOOLEAN :
          Destroy(h, fault, again, 0)

SpecClash == Init /\ [][NextClash]_vars

\* One helper with the set point: Float sets of small and of large values
\* and Integer sets.
BigFloatValues == {[Prior EXCEPT !.flt = 100, !.exp = e] : e \in {24, 25, 38}}

NextBig ==
    \/ Construct(1, 5, FALSE, NULL)
    \/ makeObject(1, {}, FALSE)
    \/ \E val \in ValuesOf("float") \cup BigFloatValues, envOk, ind \in BOOLEAN :
          setResourceValue(1, "float", val, "5900", SingleInstance, envOk, FALSE, ind)
    \/ \E val \in ValuesOf("int64"), i \in {0, 1}, envOk \in BOOLEAN :
          setResourceValue(1, "int64", val, "5601", i, envOk, FALSE, FALSE)

SpecBig == Init /\ [][NextBig]_vars

\* ------------------------------------------------------------------ claims
\* The entries of helper h's definition for (name, inst).
EntriesFor(h, name, inst) ==
    LET resources == DefTable[helper[h].defObject].resources
    IN  {x \in 1..Len(resources) :
            resources[x].name = name /\ resources[x].instance = inst}

\* The declared kind of (name, inst), which has an entry.
KindOf(h, name, inst) ==
    LET resources == DefTable[helper[h].defObject].resources
    IN  resources[CHOOSE x \in EntriesFor(h, name, inst) : TRUE].type

\* The application type the claims pair with each kind.
KindMatches(app, kind) ==
    \/ app = "int64" /\ kind \in {"INTEGER", "TIME"}
    \/ app = "float" /\ kind = "FLOAT"
    \/ app = "bool" /\ kind = "BOOLEAN"
    \/ app \in {"String", "cstr"} /\ kind = "STRING"

IsAccess(l) == l.op \in {"set", "get"} /\ helper[l.h].defObject # NULL

LogHas(log, call, ok) == \E i \in DOMAIN log : log[i].call = call /\ log[i].ok = ok

\* Every entry of the definition has a successful creation in the log and
\* no creation call failed.
AllDeclaredCreated(h, log) ==
    /\ \A i \in DOMAIN log : log[i].ok
    /\ \A x \in 1..Len(DefTable[helper[h].defObject].resources) :
          \E i \in DOMAIN log :
             /\ log[i].x = x
             /\ log[i].call \in {"create_dynamic_resource",
                                 "create_dynamic_resource_instance"}

\* C1: makeObject returns true if and only if the object instance was
\* created and every declared resource (base multi-instance resource,
\* resource instance or single-instance resource) was created.
C1_MakeObjectTrueIffAllCreated ==
    last.op = "makeObject" =>
        (last.ok <=> /\ helper[last.h].defObject # NULL
                     /\ LogHas(last.log, "create_object_instance", TRUE)
                     /\ AllDeclaredCreated(last.h, last.log))

\* C2: when no object handle was supplied and the creation of the object
\* fails, makeObject returns false and creates nothing further.
C2_ObjectCreationFailureReturnsFalse ==
    (last.op = "makeObject" /\ LogHas(last.log, "create_object", FALSE)) =>
        /\ ~last.ok
        /\ Len(last.log) = 1
        /\ helper[last.h].object = NULL

\* C3: with no definition, makeObject and every setResourceValue and
\* getResourceValue overload return false, without faulting and without an
\* indeterminate result.
C3_NoDefinitionReturnsFalse ==
    (last.op \in {"makeObject", "set", "get"} /\ helper[last.h].defObject = NULL) =>
        (~last.ok /\ ~last.fault)

\* C4: a set or get whose application type does not match the declared kind
\* of the (name, instance) entry returns false, makes no call into the
\* object model and leaves every stored value and the caller's variable
\* unchanged.
C4_TypeMismatchRejected ==
    [][(/\ IsAccess(last')
        /\ EntriesFor(last'.h, last'.name, last'.inst) # {}
        /\ ~KindMatches(last'.app, KindOf(last'.h, last'.name, last'.inst)))
       => (/\ ~last'.ok
           /\ last'.calls = <<>>
           /\ res' = res
           /\ last'.val = IF last'.op = "get" THEN last'.prior ELSE last'.val
           /\ last'.op = "get" => last'.mem = PriorMem)]_vars

\* C4 witness: a bool set was rejected on a built Integer resource instance
\* that holds a value.
C4_Witness ==
    /\ last.op = "set" /\ last.app = "bool" /\ ~last.ok
    /\ last.name = "5601" /\ last.inst = 0
    /\ CellOf(1, "5601", 0) \in DOMAIN res
    /\ res[CellOf(1, "5601", 0)].value # <<>>

\* C5: every set and get returns false for a (name, instance) pair without
\* an entry of exactly that name and instance, and neither reads nor
\* writes a stored value.
C5_UndeclaredPairRejected ==
    [][(IsAccess(last') /\ EntriesFor(last'.h, last'.name, last'.inst) = {})
       => (/\ ~last'.ok
           /\ last'.calls = <<>>
           /\ res' = res
           /\ last'.val = IF last'.op = "get" THEN last'.prior ELSE last'.val
           /\ last'.op = "get" => last'.mem = PriorMem)]_vars

\* C5 witness: a get on a built multi-instance resource addressed with the
\* single-instance sentinel was rejected.
C5_Witness ==
    /\ last.op = "get" /\ last.name = "5601" /\ last.inst = SingleInstance
    /\ last.app = "int64" /\ ~last.ok
    /\ ResKey(helper[1].object, 0, "5601") \in DOMAIN res

\* The get in l reads (name, instance) with the overload of its kind, after
\* a successful set on it through the same helper.
ReadsBack(l) ==
    /\ l.op = "get" /\ helper[l.h].defObject # NULL
    /\ EntriesFor(l.h, l.name, l.inst) # {}
    /\ KindMatches(l.app, KindOf(l.h, l.name, l.inst))
    /\ CellOf(l.h, l.name, l.inst) \in DOMAIN shadow

\* C6: after a successful set of v on a declared Integer, Time, Boolean or
\* String resource, a get of the same (name, instance) succeeds and returns
\* v (the char buffer overload: v and a terminator, when v fits).
C6_SetThenGetRoundTrip ==
    (ReadsBack(last) /\ KindOf(last.h, last.name, last.inst) # "FLOAT") =>
        LET v == shadow[CellOf(last.h, last.name, last.inst)]
        IN  /\ last.ok
            /\ last.app = "int64" => last.val.int = v.int
            /\ last.app = "bool" => last.val.bool = v.bool
            /\ last.app = "String" => last.val.str = v.str
            /\ (last.app = "cstr" /\ last.len > Len(v.str)) =>
                  SubSeq(last.mem, 1, Len(v.str) + 1) = v.str \o <<"NUL">>

\* C6 witness: a negative Integer was read back, and the caller's variable
\* had held another value.
C6_Witness ==
    /\ ReadsBack(last) /\ last.app = "int64" /\ last.ok
    /\ last.val.int = 0 - 12 /\ last.prior.int # last.val.int

\* C7: a float set stores the text of the value formatted with the format
\* of the matching definition entry, "%f" when the entry declares none.
C7_FloatStoredWithDeclaredFormat ==
    (/\ last.op = "set" /\ last.app = "float" /\ last.ok
     /\ helper[last.h].defObject # NULL) =>
        LET resources == DefTable[helper[last.h].defObject].resources
            d == resources[CHOOSE x \in EntriesFor(last.h, last.name, last.inst) : TRUE]
        IN  res[CellOf(last.h, last.name, last.inst)].value =
               FormatFloat(IF d.format = NoFormat THEN "%f" ELSE d.format, last.val.flt)

\* C8: a successful set on (name, instance) changes the stored value of
\* that resource or resource instance only: every other resource and
\* resource instance, of this and of every other object instance, keeps
\* its value.
C8_SetChangesOneValueOnly ==
    [][(last'.op = "set" /\ last'.ok /\ helper[last'.h].defObject # NULL) =>
          /\ DOMAIN res' = DOMAIN res
          /\ \A k \in DOMAIN res :
                k # CellOf(last'.h, last'.name, last'.inst) => res'[k] = res[k]]_vars

\* C8 witness: instance 1 of a resource was set while instance 0 and a
\* resource of the sibling object instance held values.
C8_Witness ==
    /\ last.op = "set" /\ last.ok /\ last.h = 1
    /\ last.name = "5601" /\ last.inst = 1
    /\ helper[1].object = helper[2].object
    /\ \E k \in DOMAIN res : k[2] = 1 /\ res[k].value # <<>>
    /\ res[CellOf(1, "5601", 0)].value # <<>>
    /\ res[CellOf(1, "5601", 0)].value # res[CellOf(1, "5601", 1)].value

\* The get in l reads a declared multi-instance resource instance that no
\* set has written, with the overload of its kind.
ReadsNeverSet(l) ==
    /\ l.op = "get" /\ helper[l.h].defObject # NULL
    /\ l.inst >= 0
    /\ EntriesFor(l.h, l.name, l.inst) # {}
    /\ KindMatches(l.app, KindOf(l.h, l.name, l.inst))
    /\ CellOf(l.h, l.name, l.inst) \notin DOMAIN shadow

\* C9 as claimed: a get of a multi-instance resource instance that has
\* never been set fails.
C9_NeverSetGetFails == ReadsNeverSet(last) => ~last.ok

\* C9 amended: a get of a declared multi-instance resource instance that
\* has never been set succeeds exactly when the resource instance exists
\* in the object model, and then returns the value of the empty store (0
\* for an Integer).
C9_NeverSetGetReadsEmpty ==
    ReadsNeverSet(last) =>
        /\ last.ok <=> CellOf(last.h, last.name, last.inst) \in DOMAIN res
        /\ (last.ok /\ last.app = "int64") => last.val.int = 0

\* C9 witness: a never-set instance that makeObject created was read.
C9_Witness ==
    /\ ReadsNeverSet(last) /\ last.ok /\ last.app = "int64"
    /\ last.name = "5601" /\ last.inst = 1

\* C10: the char buffer get on a String resource with capacity N >= 1
\* writes the first min(stored length, N - 1) bytes of the stored string
\* and one terminator, nothing at index N or beyond, and succeeds also
\* when it truncates; with N = 0 it writes nothing.
C10_BufferGetTruncates ==
    (/\ last.op = "get" /\ last.app = "cstr" /\ helper[last.h].defObject # NULL
     /\ EntriesFor(last.h, last.name, last.inst) # {}
     /\ KindOf(last.h, last.name, last.inst) = "STRING"
     /\ CellOf(last.h, last.name, last.inst) \in DOMAIN res) =>
        LET stored == res[CellOf(last.h, last.name, last.inst)].value
            N == last.len
            k == IF Len(stored) < N - 1 THEN Len(stored) ELSE N - 1
        IN  /\ last.ok
            /\ N = 0 => last.mem = PriorMem
            /\ N >= 1 =>
                  /\ SubSeq(last.mem, 1, k) = SubSeq(stored, 1, k)
                  /\ last.mem[k + 1] = "NUL"
                  /\ \A i \in (k + 2)..Len(last.mem) : last.mem[i] = PriorMem[i]

\* C10 witness: a stored string of four bytes was read into a buffer of two.
C10_Witness ==
    /\ last.op = "get" /\ last.app = "cstr" /\ last.ok /\ last.len = 2
    /\ helper[last.h].defObject # NULL
    /\ CellOf(last.h, last.name, last.inst) \in DOMAIN res
    /\ Len(res[CellOf(last.h, last.name, last.inst)].value) = 4

\* The step is the teardown of a helper that has a definition and whose
\* _object exists.
ValidTeardown ==
    /\ last'.op = "destroy"
    /\ helper[last'.h].defObject # NULL
    /\ helper[last'.h].object \in objects

\* C11: the teardown of a helper removes its own object instance (and no
\* other), and deletes the underlying object if and only if no instance of
\* the object is left after that removal: while the built instance of
\* another helper remains, the object stays.
C11_TeardownDeletesWithLastInstance ==
    [][ValidTeardown =>
          LET o  == helper[last'.h].object
              id == DefTable[helper[last'.h].defObject].instance
          IN  /\ objInst' = objInst \ {<<o, id>>}
              /\ objects' \in {objects, objects \ {o}}
              /\ o \notin objects' <=> ~(\E i \in objInst' : i[1] = o)
              /\ last'.deleted <=> o \notin objects'
              /\ \A k \in DOMAIN res :
                    k \in DOMAIN res' <=> ~(k[1] = o /\ k[2] = id)]_vars

\* C11 witness: a helper that had built its instance was torn down and the
\* object stayed, an instance of the other helper remaining in it.
C11_Witness ==
    /\ last.op = "destroy" /\ ~last.deleted /\ ~last.fault /\ ~last.uaf
    /\ \E i \in DOMAIN last.calls : last.calls[i] = "remove_object_instance"
    /\ helper[last.h].object \in objects
    /\ \E i \in objInst : i[1] = helper[last.h].object

\* C12: over any sequence of construct, makeObject, accessor and teardown
\* operations of helpers sharing one object, no helper uses the object
\* after it has been deleted (in makeObject, in an accessor or in its own
\* teardown), and so the object is never deleted a second time.
C12_NoUseAfterDelete == ~last.uaf

\* The calls of an accessor that reach a resource's value storage.
StorageCalls == {"set_value", "get_value_int", "get_value_string"}

\* C13: for a resource declared ObjectLink or Opaque every set and every
\* get overload returns false without a call into the object model (so
\* none to the value storage), leaving the stored values and the caller's
\* variable as they were; and the private accessors, were they reached
\* with such a kind, return false without a call to the value storage.
C13_UnsupportedKindsRejected ==
    [][(/\ IsAccess(last')
        /\ EntriesFor(last'.h, last'.name, last'.inst) # {}
        /\ KindOf(last'.h, last'.name, last'.inst) \in {"OBJLINK", "OPAQUE"})
       => (/\ ~last'.ok
           /\ last'.calls = <<>>
           /\ res' = res
           /\ last'.val = IF last'.op = "get" THEN last'.prior ELSE last'.val
           /\ last'.op = "get" => last'.mem = PriorMem
           /\ \A type \in {"OBJLINK", "OPAQUE"} :
                LET s == SetPrivate(helper[last'.h], res, objInst, last'.val, type,
                                    last'.name, last'.inst, NoFormat, TRUE)
                    g == GetPrivate(helper[last'.h], res, objInst, Prior, type,
                                    last'.name, last'.inst)
                IN  /\ ~s.ok /\ s.res = res
                    /\ ~g.ok /\ g.val = Prior
                    /\ \A i \in DOMAIN s.calls : s.calls[i] \notin StorageCalls
                    /\ \A i \in DOMAIN g.calls : g.calls[i] \notin StorageCalls)]_vars

\* C13 witness: a String set was rejected on a built Opaque resource.
C13_Witness ==
    /\ last.op = "set" /\ last.app = "String" /\ ~last.ok
    /\ last.name = "5910" /\ helper[1].defObject = 4
    /\ ResKey(helper[1].object, 0, "5910") \in DOMAIN res

\* C14: a setResourceValue that returns false leaves every stored value of
\* the object model, and the objects and instances themselves, unchanged,
\* whatever made it fail; so does the private set on a resource instance
\* that does not exist (index 7, which no definition declares).
C14_FailedSetChangesNothing ==
    [][(last'.op = "set" /\ ~last'.ok) =>
          /\ res' = res /\ objInst' = objInst /\ objects' = objects
          /\ helper[last'.h].defObject # NULL =>
                LET s == SetPrivate(helper[last'.h], res, objInst, last'.val,
                                    "INTEGER", last'.name, 7,
                                    NoFormat, TRUE)
                IN  (resource(res, helper[last'.h].object, 0, last'.name)
                     /\ supports_multiple_instances(res, helper[last'.h].object, 0,
                                                    last'.name))
                    => (~s.ok /\ s.res = res)]_vars

\* C14 witness: set_value() failed on a resource instance that holds a
\* value, and the set returned false.
C14_Witness ==
    /\ last.op = "set" /\ ~last.ok /\ ~last.fault
    /\ last.name = "5601" /\ last.inst = 1
    /\ \E i \in DOMAIN last.calls : last.calls[i] = "set_value"
    /\ res[CellOf(1, "5601", 1)].value # <<>>

\* C15: while a helper that was constructed with a definition and without
\* an object has no object (makeObject has not run), every
\* setResourceValue, getResourceValue and setExecuteCallback returns false
\* without a call into the object model, creates nothing and changes
\* nothing, the caller's variable included.
C15_NothingBeforeMakeObject ==
    [][(/\ last'.op \in {"set", "get", "execute"}
        /\ helper[last'.h].object = NULL
        /\ last'.op = "execute" \/ helper[last'.h].defObject # NULL)
       => (/\ ~last'.ok /\ ~last'.fault
           /\ last'.calls = <<>>
           /\ res' = res /\ objInst' = objInst /\ objects' = objects
           /\ helper' = helper
           /\ last'.op = "get" =>
                 (last'.val = last'.prior /\ last'.mem = PriorMem))]_vars

\* C15 witness: a bool set on the declared Boolean resource was made
\* before makeObject and returned false.
C15_Witness ==
    /\ last.op = "set" /\ last.app = "bool" /\ last.name = "5850" /\ ~last.ok
    /\ helper[1].live /\ helper[1].defObject = 2 /\ helper[1].object = NULL
    /\ objects = {}

\* The calls of a makeObject log that create the resource or resource
\* instance of an entry (not the base of a multi-instance resource).
EntryCalls(log) ==
    SelectSeq(log, LAMBDA e : e.call \in {"create_dynamic_resource",
                                          "create_dynamic_resource_instance"})

\* The key of the resource or resource instance of entry d in object
\* instance <<o, id>>.
EntryKey(o, id, d) ==
    IF d.instance >= 0 THEN InstKey(o, id, d.name, d.instance)
    ELSE ResKey(o, id, d.name)

\* The makeObject in l created its object instance.
BuiltInstance(l) ==
    /\ l.op = "makeObject" /\ ~l.uaf
    /\ LogHas(l.log, "create_object_instance", TRUE)

\* C16: once the object instance is created, makeObject attempts the
\* creation of every definition entry, once and in definition order,
\* whether or not an earlier creation failed; what was created is in the
\* object model when makeObject returns, and makeObject returns false if
\* a creation failed.
C16_BuilderIsBestEffort ==
    BuiltInstance(last) =>
        LET def   == DefTable[helper[last.h].defObject]
            o     == helper[last.h].object
            calls == EntryCalls(last.log)
        IN  /\ Len(calls) = Len(def.resources)
            /\ \A i \in DOMAIN calls :
                  /\ calls[i].x = i
                  /\ calls[i].ok => EntryKey(o, def.instance, def.resources[i])
                                        \in DOMAIN res
            /\ (\E i \in DOMAIN last.log : ~last.log[i].ok) => ~last.ok

\* C16 witness: the creation of the first entry failed, the third was
\* created, and makeObject returned false.
C16_Witness ==
    /\ BuiltInstance(last) /\ ~last.ok
    /\ LET calls == EntryCalls(last.log)
       IN  Len(calls) = 3 /\ ~calls[1].ok /\ calls[2].ok /\ calls[3].ok
    /\ helper[last.h].defObject = 1
    /\ InstKey(helper[last.h].object, 0, "5601", 1) \in DOMAIN res

\* C17: when the creation of the object instance fails, makeObject returns
\* false and calls no resource creation, leaving the resources and the
\* object instances as they were; a second makeObject of a built helper
\* fails in this way and adds nothing.
C17_InstanceFailureCreatesNothing ==
    [][(/\ last'.op = "makeObject"
        /\ LogHas(last'.log, "create_object_instance", FALSE))
       => (/\ ~last'.ok
           /\ last'.log[Len(last'.log)].call = "create_object_instance"
           /\ EntryCalls(last'.log) = <<>>
           /\ res' = res /\ objInst' = objInst)]_vars

\* C17 witness: makeObject was called on a helper whose object instance
\* and resources exist, and returned false.
C17_Witness ==
    /\ last.op = "makeObject" /\ ~last.ok
    /\ LogHas(last.log, "create_object_instance", FALSE)
    /\ helper[last.h].defObject = 1
    /\ <<helper[last.h].object, 0>> \in objInst
    /\ InstKey(helper[last.h].object, 0, "5601", 1) \in DOMAIN res

\* Log entry e creates the base of a multi-instance resource.
IsBaseCall(e) == e.call = "create_dynamic_resource(multi)"

\* C18: for a multi-instance resource name, makeObject creates the base
\* multi-instance resource at the first entry of that name, directly
\* before that entry's resource instance; once the base is created no
\* later entry of the name creates it again; and each entry with an
\* instance index gets one resource instance creation, in definition
\* order.
C18_BaseCreatedOnceBeforeInstances ==
    BuiltInstance(last) =>
        LET resources == DefTable[helper[last.h].defObject].resources
            log       == last.log
            calls     == EntryCalls(log)
            First(x)  == \A y \in 1..(x - 1) : resources[y].name # resources[x].name
        IN  /\ \A i \in DOMAIN log : IsBaseCall(log[i]) =>
                  /\ resources[log[i].x].instance >= 0
                  /\ i < Len(log) /\ log[i + 1].x = log[i].x
                  /\ log[i + 1].call = "create_dynamic_resource_instance"
                  /\ \A j \in 1..(i - 1) :
                        (IsBaseCall(log[j]) /\ log[j].ok)
                        => resources[log[j].x].name # resources[log[i].x].name
            /\ \A x \in DOMAIN resources :
                  (resources[x].instance >= 0 /\ First(x))
                  => \E i \in DOMAIN log : IsBaseCall(log[i]) /\ log[i].x = x
            /\ \A x \in DOMAIN resources :
                  resources[x].instance >= 0
                  => (x \in DOMAIN calls /\ calls[x].x = x
                      /\ calls[x].call = "create_dynamic_resource_instance")

\* C18 witness: the two instances of one resource were created after a
\* single creation of its base, the second without one.
C18_Witness ==
    /\ BuiltInstance(last) /\ last.ok /\ helper[last.h].defObject = 1
    /\ Len(SelectSeq(last.log, IsBaseCall)) = 1
    /\ Len(SelectSeq(last.log,
                     LAMBDA e : e.call = "create_dynamic_resource_instance")) = 2
    /\ IsBaseCall(last.log[Len(last.log) - 2])

\* C19: after makeObject every single-instance resource and every
\* resource instance it created has the operation of its definition
\* entry, and has the value-updated callback attached if and only if the
\* helper was constructed with one.
C19_OperationAndCallbackSet ==
    BuiltInstance(last) =>
        LET def   == DefTable[helper[last.h].defObject]
            o     == helper[last.h].object
            calls == EntryCalls(last.log)
        IN  \A i \in DOMAIN calls : calls[i].ok =>
               LET d == def.resources[calls[i].x]
                   k == EntryKey(o, def.instance, d)
               IN  /\ res[k].operation = d.operation
                   /\ res[k].updated <=> helper[last.h].valueUpdatedCallback

\* C19 witness: a helper with a callback created a resource instance that
\* allows PUT.
C19_Witness ==
    /\ BuiltInstance(last) /\ helper[last.h].valueUpdatedCallback
    /\ helper[last.h].defObject = 1
    /\ LET k == InstKey(helper[last.h].object, 0, "5601", 1)
       IN  /\ k \in DOMAIN res
           /\ res[k].operation = "GET_PUT_ALLOWED" /\ res[k].updated

\* The access in l is a successful bool access of a helper with a
\* definition.
BoolAccess(l, op) ==
    /\ l.op = op /\ l.app = "bool" /\ l.ok /\ ~l.fault /\ ~l.uaf
    /\ helper[l.h].defObject # NULL

\* C20: a Boolean set stores the integer 1 for true and 0 for false; a
\* Boolean get returns true exactly when the stored integer is not zero,
\* whoever stored it and whatever its value, and false when it is zero
\* (or nothing was stored).
C20_BooleanStoredAsInteger ==
    /\ BoolAccess(last, "set") =>
          res[CellOf(last.h, last.name, last.inst)].value =
             IF last.val.bool THEN <<"1">> ELSE <<"0">>
    /\ BoolAccess(last, "get") =>
          (last.val.bool <=>
              res[CellOf(last.h, last.name, last.inst)].value \notin {<<>>, <<"0">>})

\* C20 witness: the server had stored 2 and the get returned true into a
\* variable that held false.
C20_Witness ==
    /\ BoolAccess(last, "get") /\ last.val.bool /\ ~last.prior.bool
    /\ res[CellOf(last.h, last.name, last.inst)].value = <<"2">>

\* The access in l is on a declared (name, instance) with the overload of
\* its kind, and the resource of that name exists in the helper's object
\* instance.
ResolvesResource(l) ==
    /\ IsAccess(l) /\ ~l.uaf
    /\ EntriesFor(l.h, l.name, l.inst) # {}
    /\ KindMatches(l.app, KindOf(l.h, l.name, l.inst))
    /\ helper[l.h].object # NULL
    /\ ResKey(helper[l.h].object, DefTable[helper[l.h].defObject].instance, l.name)
          \in DOMAIN res

\* C21: when the named resource supports multiple instances, set and get
\* work on the resource instance with the requested index, and return
\* false without a call to the value storage when that resource instance
\* does not exist, declared or not; when the resource is single-instance
\* they work on the resource itself.
C21_ResolvesInstanceOrResource ==
    ResolvesResource(last) =>
        LET o     == helper[last.h].object
            id    == DefTable[helper[last.h].defObject].instance
            multi == res[ResKey(o, id, last.name)].multi
            key   == IF multi THEN InstKey(o, id, last.name, last.inst % 65536)
                     ELSE ResKey(o, id, last.name)
            kind  == KindOf(last.h, last.name, last.inst)
        IN  /\ key \notin DOMAIN res =>
                  /\ ~last.ok
                  /\ \A i \in DOMAIN last.calls : last.calls[i] \notin StorageCalls
                  /\ last.val = IF last.op = "get" THEN last.prior ELSE last.val
            /\ (key \in DOMAIN res /\ last.op = "get") =>
                  /\ last.ok
                  /\ kind = "INTEGER" => last.val.int = TextInt(res[key].value)
            /\ (key \in DOMAIN res /\ last.op = "set") =>
                  /\ \E i \in DOMAIN last.calls : last.calls[i] = "set_value"
                  /\ (last.ok /\ kind = "INTEGER") =>
                        res[key].value = IntText(last.val.int)

\* C21 witness: instance 1 of a two-instance resource is declared but its
\* creation had failed; instance 0 exists; the get of instance 1 returned
\* false.
C21_Witness ==
    /\ ResolvesResource(last) /\ last.op = "get" /\ ~last.ok
    /\ last.name = "5601" /\ last.inst = 1
    /\ InstKey(helper[1].object, 0, "5601", 0) \in DOMAIN res
    /\ InstKey(helper[1].object, 0, "5601", 1) \notin DOMAIN res

\* The text does not begin with a number: it is empty or begins with a
\* character that is no digit, sign or point.
NoNumber(text) ==
    text = <<>> \/ (~IsDigit(Head(text)) /\ Head(text) \notin {"-", "+", "."})

\* C22: a float get returns true whenever the resource (or resource
\* instance) is resolved, whatever is stored: when the stored text is
\* empty or does not begin with a number, the caller's float keeps the
\* value it had.
C22_FloatGetIgnoresParse ==
    (ResolvesResource(last) /\ last.op = "get" /\ last.app = "float") =>
        LET o    == helper[last.h].object
            id   == DefTable[helper[last.h].defObject].instance
            text == res[ResKey(o, id, last.name)].value
        IN  /\ last.ok
            /\ NoNumber(text) => last.val = last.prior
            /\ text = <<"2", ".", "5", "x">> => last.val.flt = 250

\* C22 witness: the server had stored a text that is no number, and the
\* float get returned true with the caller's float as it was.
C22_Witness ==
    /\ ResolvesResource(last) /\ last.op = "get" /\ last.app = "float" /\ last.ok
    /\ last.name = "5900"
    /\ res[ResKey(helper[1].object, 0, "5900")].value = <<"a", "b">>
    /\ last.val.flt = last.prior.flt

\* C23: setExecuteCallback of a helper that has a definition (or no
\* object) attaches the callback to the resource of the given name
\* exactly when the object is built, the helper's object instance exists
\* and a resource of that name exists in it, and then returns what the
\* attachment returned; otherwise it returns false and attaches nothing.
\* Neither the definition table nor the resource's operation is looked at,
\* and no stored value changes.
C23_ExecuteCallbackKeyedByName ==
    [][(/\ last'.op = "execute" /\ ~last'.uaf
        /\ helper[last'.h].object = NULL \/ helper[last'.h].defObject # NULL)
       => LET o      == helper[last'.h].object
              key    == ResKey(o, DefTable[helper[last'.h].defObject].instance,
                               last'.name)
              exists == o # NULL /\ key \in DOMAIN res
              called == \E i \in DOMAIN last'.calls :
                           last'.calls[i] = "set_execute_function"
          IN  /\ called <=> exists
              /\ last'.ok => (called /\ res'[key].execute)
              /\ ~last'.ok => res' = res
              /\ DOMAIN res' = DOMAIN res
              /\ \A k \in DOMAIN res :
                    res'[k] = IF k = key /\ last'.ok
                              THEN [res[k] EXCEPT !.execute = TRUE]
                              ELSE res[k]]_vars

\* C23 witness: the callback was attached to a resource whose operation
\* is not POST.
C23_Witness ==
    /\ last.op = "execute" /\ last.ok /\ last.name = "5910"
    /\ res[ResKey(helper[1].object, 0, "5910")].execute
    /\ res[ResKey(helper[1].object, 0, "5910")].operation = "GET_PUT_ALLOWED"

\* C24: the teardown of a helper whose own makeObject created no object
\* instance (it never ran, or it failed because another helper sharing
\* the object holds the instance id) leaves every object instance and
\* every stored resource value as they were.
C24_TeardownRemovesOwnInstanceOnly ==
    [][(last'.op = "destroy" /\ ~helper[last'.h].built)
       => (objInst' = objInst /\ res' = res)]_vars

\* C25: the byte length a Float set passes to the value storage is at most
\* the size of the formatting buffer, whatever the value.
C25_FloatLengthWithinBuffer ==
    (last.op = "set" /\ last.app = "float") => last.length <= BufferSize

\* C26: no definition entry makes makeObject call both the creation of a
\* multi-instance base resource and the creation of a single-instance
\* resource of the entry's name: an entry leads to one kind of creation.
C26_OneKindOfCreation ==
    \A i, j \in DOMAIN last.log :
        ~ /\ last.log[i].x = last.log[j].x
          /\ last.log[i].call = "create_dynamic_resource(multi)"
          /\ last.log[j].call = "create_dynamic_resource"

\* C27: a getResourceValue of a helper that has a definition and a valid
\* object handle that returns false leaves the caller's variable (int64,
\* float, bool or String) and the caller's character buffer as they were.
C27_FailedGetLeavesOutput ==
    (/\ last.op = "get" /\ ~last.ok /\ ~last.fault /\ ~last.uaf
     /\ helper[last.h].defObject # NULL) =>
        /\ last.val = last.prior
        /\ last.mem = PriorMem

\* C27 witness: the private get was entered for a declared resource of the
\* overload's kind, did not find the object instance and returned false.
C27_Witness ==
    /\ last.op = "get" /\ ~last.ok /\ ~last.fault
    /\ last.calls = <<"object_instance">>
    /\ helper[last.h].object # NULL
    /\ last.val = last.prior /\ last.mem = PriorMem

\* C28: a set from a char * and a get into a char buffer release every
\* temporary String they allocate before they return, on the success path
\* and on every failure path.
C28_TemporariesReleased ==
    (last.op \in {"set", "get"} /\ last.app = "cstr") =>
        last.released = last.allocated

====
